---- MODULE Spec2Model ----
(***************************************************************************)
(* Loan Processing API (src/main.py): the customer-identifier allocation   *)
(* of create_personal_details, the record creation of                      *)
(* add_employment_details and add_loan_info, and the aggregation of        *)
(* get_customer_summary, over the three tables they read and write.        *)
(*                                                                         *)
(* Representation.                                                         *)
(*   - A Customer_ID is the sequence of its characters,                    *)
(*     <<"C","U","S","T","0","1","1","1">>, so that the ORDER BY of the    *)
(*     column (a string order), the slice [4:], int() and the format       *)
(*     "CUST{n:04d}" are each computed as the code computes them.          *)
(*   - A nullable column or Optional value is <<>> (NULL / None) or <<v>>. *)
(*   - A float is a fixed-point number counted in 1/Scale units; a stored  *)
(*     integer column is a plain integer.                                  *)
(*   - A table is the sequence of its rows in insertion order.             *)
(***************************************************************************)
EXTENDS Integers, Sequences, FiniteSets, TLC

VARIABLES
    customers,    \* MasterCustomerData: the sequence of Customer_ID values
    employment,   \* EmploymentInfo rows
    loans,        \* LoanInfo rows
    pc,           \* per worker: where its create_personal_details request stands
    req,          \* per worker: the locals of its create_personal_details request
    resp,         \* the last HTTP response sent
    scen          \* progress of the end-to-end scenario on the last created customer

vars == <<customers, employment, loans, pc, req, resp, scen>>

store == <<customers, employment, loans>>

(***************************************************************************)
(* Bounds of the model.                                                    *)
(***************************************************************************)
\* Resolution of request floats: a float is k/Scale.
Scale == 2
\* No customer is created once the customer table holds this many rows.
MaxCustomers == 3
\* No employment row is added once the table holds this many rows.
MaxEmployment == 1
\* No loan row is added once the table holds this many rows.
MaxLoans == 2
\* The rows found at the start are dated 1..MaxDate; the server's current date
\* is the day after.
MaxDate == 2

(***************************************************************************)
(* Program constants.                                                      *)
(***************************************************************************)
\* max(last_num + 1, 111) and the first number issued
Floor == 111
\* the width of {new_num:04d}
PadWidth == 4
\* the length of the "CUST" prefix cut off by Customer_ID[4:]
PrefixLen == 4
\* (loan.Tenure_Months or 0) // 12
MonthsPerYear == 12

Procs == {1, 2}

NULL == <<>>
Some(v) == <<v>>
IsNull(x) == x = <<>>
Val(x) == x[1]

Range(s) == {s[i] : i \in DOMAIN s}
Max(a, b) == IF a >= b THEN a ELSE b
Min(a, b) == IF a <= b THEN a ELSE b

(***************************************************************************)
(* Strings.                                                                *)
(***************************************************************************)
DigitChars == <<"0", "1", "2", "3", "4", "5", "6", "7", "8", "9">>
DigitChar(d) == DigitChars[d + 1]
IsDigit(c) == \E d \in 0..9 : DigitChars[d + 1] = c
DigitVal(c) == CHOOSE d \in 0..9 : DigitChars[d + 1] = c

\* The code point of a character of an identifier.
CharCode(c) ==
    CASE c = "C" -> 67
      [] c = "S" -> 83
      [] c = "T" -> 84
      [] c = "U" -> 85
      [] OTHER -> 48 + DigitVal(c)

\* a < b in the order of strings: the first differing character decides, and
\* a proper prefix comes first.
StrLess(a, b) ==
    \E k \in 1..(Min(Len(a), Len(b)) + 1) :
        /\ \A i \in 1..(k - 1) : a[i] = b[i]
        /\ IF k > Len(a) THEN k <= Len(b)
           ELSE /\ k <= Len(b)
                /\ CharCode(a[k]) < CharCode(b[k])

\* int(s) of a string of decimal digits (leading zeros allowed).
RECURSIVE StrToInt(_)
StrToInt(s) ==
    IF Len(s) = 0 THEN 0
    ELSE 10 * StrToInt(SubSeq(s, 1, Len(s) - 1)) + DigitVal(s[Len(s)])

\* str(n) for n >= 0.
RECURSIVE IntToStr(_)
IntToStr(n) ==
    IF n < 10 THEN <<DigitChar(n)>>
    ELSE IntToStr(n \div 10) \o <<DigitChar(n % 10)>>

RECURSIVE Zeros(_)
Zeros(k) == IF k <= 0 THEN <<>> ELSE <<"0">> \o Zeros(k - 1)

\* f"{n:04d}": the decimal digits of n, zero-padded on the left to PadWidth.
Pad04d(n) == Zeros(PadWidth - Len(IntToStr(n))) \o IntToStr(n)

\* f"CUST{new_num:04d}"
FormatCustomerId(n) == <<"C", "U", "S", "T">> \o Pad04d(n)

\* int(latest_customer.Customer_ID[4:])
SuffixNum(id) == StrToInt(SubSeq(id, PrefixLen + 1, Len(id)))

(***************************************************************************)
(* Floats.                                                                 *)
(***************************************************************************)
\* int(x): truncation toward zero.
IntOf(x) == IF x >= 0 THEN x \div Scale ELSE -((-x) \div Scale)
\* float(n)
FloatOf(n) == n * Scale

(***************************************************************************)
(* The Record Store.                                                       *)
(***************************************************************************)
Cust(n) == FormatCustomerId(n)

\* A LoanInfo row.
LoanRow(cid, required, amount, purpose, appDate, status, score, emi, tenure) ==
    [Customer_ID |-> cid, Loan_Required |-> required, Loan_Amount |-> amount,
     Loan_Purpose |-> purpose, Application_Date |-> appDate,
     Loan_Status |-> status, Collateral_Required |-> "documents",
     Credit_Score |-> score, EMI |-> emi, Tenure_Months |-> tenure]

\* An EmploymentInfo row.
EmploymentRow(cid, designation, income) ==
    [Customer_ID |-> cid, Designation |-> designation, Monthly_Income |-> income,
     Employment_Status |-> "Active", Income_Verification |-> "Pending"]

\* The tables as the service may find them when it starts.  The tables are
\* shared with other writers: get_customer_summary reads Credit_Score, EMI
\* and Tenure_Months, which no handler of this service writes, and the floor
\* of max(last_num + 1, 111) is there for identifiers below 111 that
\* create_personal_details never issues.  Every identifier is "CUST" and at
\* least four digits, identifiers are unique, and every employment and loan
\* row references a stored customer.  (The allocation on an empty customer
\* table is run from InitialPopulations.)
InitialStores ==
    { \* two customers, the newer with one loan application recorded at amount 0
      [customers |-> <<Cust(120), Cust(150)>>, employment |-> <<>>,
       loans |-> <<LoanRow(Cust(150), "Yes", 0, "Car", 2, "REJECTED",
                           Some(700), NULL, NULL)>>],
      \* two customers with employment and loans of every kind
      [customers |-> <<Cust(150), Cust(151)>>,
       employment |-> <<EmploymentRow(Cust(150), "Clerk", 30000),
                        EmploymentRow(Cust(150), "Manager", 45000)>>,
       loans |-> <<LoanRow(Cust(150), "Yes", 5000, "Car", 1, "APPROVED",
                           Some(650), Some(100), Some(18)),
                   LoanRow(Cust(150), "No", 7000, "Car", 2, "CLOSED",
                           NULL, NULL, NULL),
                   LoanRow(Cust(151), "Yes", 9000, "Home", 2, "APPROVED",
                           Some(720), NULL, Some(24))>>] }

\* The customer tables the allocation is run on: none, one identifier below
\* the floor, one above it, and the last four-digit identifier.
InitialPopulations == { <<>>, <<Cust(5)>>, <<Cust(150)>>, <<Cust(9999)>> }

\* The same and one more that create_personal_details does not produce from
\* any of them: four- and five-digit identifiers with a gap between them.
AnyPopulations == InitialPopulations \cup { <<Cust(2000), Cust(10000)>> }

\* The locals of a create_personal_details request that has not read yet.
NoRequest == [latest_customer |-> NULL, customer_id |-> NULL]

\* An HTTP response: every field a handler may fill, NULL or empty when the
\* handler sends none.  detail is the HTTPException's detail ("" on success);
\* for a persistence error it names the exception caught.
Response(op, status, cid, detail) ==
    [op |-> op, status |-> status, customer_id |-> cid, detail |-> detail,
     monthly_income |-> NULL, loan_amount |-> NULL, loan_purpose |-> NULL,
     credit_score |-> NULL, existing_loans |-> <<>>]

NoResponse == Response("none", 0, NULL, "")

\* The end-to-end scenario has not started.
NoScenario == [step |-> 0, cid |-> NULL, I |-> 0, A |-> 0]

Init ==
    /\ \E s \in InitialStores :
          /\ customers = s.customers
          /\ employment = s.employment
          /\ loans = s.loans
    /\ pc = [p \in Procs |-> "idle"]
    /\ req = [p \in Procs |-> NoRequest]
    /\ resp = NoResponse
    /\ scen = NoScenario

InitAllocator ==
    /\ customers \in InitialPopulations
    /\ employment = <<>>
    /\ loans = <<>>
    /\ pc = [p \in Procs |-> "idle"]
    /\ req = [p \in Procs |-> NoRequest]
    /\ resp = NoResponse
    /\ scen = NoScenario

InitAnyPopulation ==
    /\ customers \in AnyPopulations
    /\ employment = <<>>
    /\ loans = <<>>
    /\ pc = [p \in Procs |-> "idle"]
    /\ req = [p \in Procs |-> NoRequest]
    /\ resp = NoResponse
    /\ scen = NoScenario

(***************************************************************************)
(* The session: db.add, db.commit, db.refresh and the except clause.       *)
(***************************************************************************)
\* What the environment does to one transaction: nothing, a failure of the
\* write (add/commit raises), or a failure of db.refresh after the commit.
Faults == {"none", "commit", "refresh"}

\* The unique constraint of MasterCustomerData.Customer_ID.
UniqueViolation(id) == id \in Range(customers)

\* The exception raised inside the try block, "" when none is.
ExceptionOf(fault, duplicate) ==
    IF fault = "commit" THEN "OperationalError"
    ELSE IF duplicate THEN "IntegrityError"
    ELSE IF fault = "refresh" THEN "RefreshError"
    ELSE ""

\* The write failed: add or commit raised.
WriteFailed(exc) == exc \in {"OperationalError", "IntegrityError"}

\* The table after db.add(row); db.commit() and, when that raised,
\* db.rollback().
\* Mutant: the row written stays when the commit fails.
CommitRowNoRollback(table, row, exc) == Append(table, row)
CommitRow(table, row, exc) == IF WriteFailed(exc) THEN table ELSE Append(table, row)

\* try: ... return {...}  except Exception: ... raise HTTPException(500)
\* Mutant: the exception is swallowed and success reported.
StatusAlwaysOk(exc) == 200
StatusOf(exc) == IF exc = "" THEN 200 ELSE 500

(***************************************************************************)
(* create_personal_details                                                 *)
(***************************************************************************)
\* db.query(MasterCustomerData).order_by(Customer_ID.desc()).first():
\* the greatest Customer_ID in the order of strings, None on an empty table.
LatestCustomer(rows) ==
    IF rows = <<>> THEN NULL
    ELSE CHOOSE id \in Range(rows) : \A o \in Range(rows) : ~StrLess(id, o)

\* new_num
\* Mutant: last_num + 1 without the floor.
NewNumNoFloor(latest_customer) ==
    IF latest_customer # NULL THEN SuffixNum(latest_customer) + 1 ELSE Floor
NewNum(latest_customer) ==
    IF latest_customer # NULL
    THEN Max(SuffixNum(latest_customer) + 1, Floor)
    ELSE Floor

\* The first half of the handler: the query and the computation of customer_id.
CreateRead(p) ==
    /\ pc[p] = "idle"
    /\ Len(customers) < MaxCustomers
    /\ LET latest_customer == LatestCustomer(customers)
       IN req' = [req EXCEPT ![p] =
                    [latest_customer |-> latest_customer,
                     customer_id |-> FormatCustomerId(NewNum(latest_customer))]]
    /\ pc' = [pc EXCEPT ![p] = "insert"]
    /\ UNCHANGED <<customers, employment, loans, resp, scen>>

\* The scenario after a create_personal_details response: it restarts on
\* every customer created.
ScenAfterCreate(s, status, cid) ==
    IF status = 200 THEN [step |-> 1, cid |-> cid, I |-> 0, A |-> 0] ELSE s

\* The second half: the insert, the commit and the response.
CreateInsert(p, fault) ==
    /\ pc[p] = "insert"
    /\ LET customer_id == req[p].customer_id
           exc == ExceptionOf(fault, UniqueViolation(customer_id))
           status == StatusOf(exc)
       IN /\ customers' = CommitRow(customers, customer_id, exc)
          /\ resp' = Response("create_personal_details", status,
                              IF status = 200 THEN customer_id ELSE NULL, exc)
          /\ scen' = ScenAfterCreate(scen, status, customer_id)
    /\ pc' = [pc EXCEPT ![p] = "idle"]
    /\ req' = [req EXCEPT ![p] = NoRequest]
    /\ UNCHANGED <<employment, loans>>

(***************************************************************************)
(* Requests.                                                               *)
(***************************************************************************)
\* The customer_id path parameters of the reads: every stored identifier and
\* one that is never stored.
RequestIds == Range(customers) \cup {Cust(1)}

\* The customer_id path parameters of the writes: the newest customer and one
\* that is never stored.
TargetIds ==
    (IF customers = <<>> THEN {} ELSE {customers[Len(customers)]}) \cup {Cust(1)}

\* EmploymentDetailsRequest.monthly_income: -1.0, 50000.0 and 50000 + 1/Scale.
Incomes == {-Scale, 50000 * Scale, 50000 * Scale + 1}

\* LoanApplicationRequest.loan_amount: -1.0, 1/Scale and 200000.0.
LoanAmounts == {-Scale, 1, 200000 * Scale}

\* datetime.now().date()
Today == MaxDate + 1

EmploymentDetailsRequests ==
    [designation : {"Engineer"}, monthly_income : Incomes]

\* The loan requests tried: every amount with loan_required "Yes" and the
\* defaults, and one backdated request with loan_required "No".
LoanApplicationRequests ==
    [loan_amount : LoanAmounts, loan_required : {"Yes"},
     application_date : {NULL}, loan_status : {"PENDING"}]
    \cup [loan_amount : {200000 * Scale}, loan_required : {"No"},
          application_date : {Some(1)}, loan_status : {"PENDING"}]

\* db.query(MasterCustomerData).filter_by(Customer_ID=customer_id).first()
\* Mutant: the existence check passes for every identifier.
AnyCustomer(customer_id) == TRUE
CustomerExists(customer_id) == customer_id \in Range(customers)

NotFound(op) == Response(op, 404, NULL, "Customer not found")

(***************************************************************************)
(* add_employment_details                                                  *)
(***************************************************************************)
\* EmploymentInfo(Customer_ID=..., Monthly_Income=int(details.monthly_income), ...)
NewEmployment(customer_id, details) ==
    EmploymentRow(customer_id, details.designation, IntOf(details.monthly_income))

\* The scenario after an add_employment_details request: its second step is
\* the first employment row of the customer it follows; any other employment
\* row written for that customer ends it.
ScenAfterEmployment(s, customer_id, details, status, written) ==
    IF s.step = 0 \/ s.cid # customer_id \/ ~written THEN s
    ELSE IF s.step = 1 /\ status = 200
         THEN [s EXCEPT !.step = 2, !.I = details.monthly_income]
         ELSE NoScenario

AddEmploymentDetails(customer_id, details, fault) ==
    /\ Len(employment) < MaxEmployment
    /\ IF ~CustomerExists(customer_id)
       THEN /\ resp' = NotFound("add_employment_details")
            /\ UNCHANGED <<employment, scen>>
       ELSE LET row == NewEmployment(customer_id, details)
                exc == ExceptionOf(fault, FALSE)
                status == StatusOf(exc)
            IN /\ employment' = CommitRow(employment, row, exc)
               /\ resp' = IF status = 200
                          THEN [Response("add_employment_details", 200,
                                         customer_id, "")
                                  EXCEPT !.monthly_income =
                                             Some(FloatOf(row.Monthly_Income))]
                          ELSE Response("add_employment_details", 500, NULL, exc)
               /\ scen' = ScenAfterEmployment(scen, customer_id, details, status,
                                              employment' # employment)
    /\ UNCHANGED <<customers, loans, pc, req>>

(***************************************************************************)
(* add_loan_info                                                           *)
(***************************************************************************)
\* LoanInfo(Customer_ID=..., Loan_Required=details.loan_required,
\*          Loan_Amount=int(details.loan_amount), Loan_Purpose="Home",
\*          Application_Date=details.application_date or datetime.now().date(),
\*          Loan_Status=details.loan_status, Collateral_Required="documents")
\* Mutant: another purpose than "Home".
NewLoanPersonal(customer_id, details) ==
    LoanRow(customer_id, details.loan_required, IntOf(details.loan_amount),
            "Personal",
            IF details.application_date # NULL
            THEN Val(details.application_date) ELSE Today,
            details.loan_status, NULL, NULL, NULL)
NewLoan(customer_id, details) ==
    LoanRow(customer_id, details.loan_required, IntOf(details.loan_amount),
            "Home",
            IF details.application_date # NULL
            THEN Val(details.application_date) ELSE Today,
            details.loan_status, NULL, NULL, NULL)

\* The scenario after an add_loan_info request: its third step is a loan of
\* amount > 0 with loan_required "Yes" as the first loan row of the customer
\* it follows; any other loan row written for that customer ends it.
ScenAfterLoan(s, customer_id, details, status, written) ==
    IF s.step = 0 \/ s.cid # customer_id \/ ~written THEN s
    ELSE IF /\ s.step = 2
            /\ status = 200
            /\ details.loan_required = "Yes"
            /\ details.loan_amount > 0
         THEN [s EXCEPT !.step = 3, !.A = details.loan_amount]
         ELSE NoScenario

AddLoanInfo(customer_id, details, fault) ==
    /\ Len(loans) < MaxLoans
    /\ IF ~CustomerExists(customer_id)
       THEN /\ resp' = NotFound("add_loan_info")
            /\ UNCHANGED <<loans, scen>>
       ELSE LET row == NewLoan(customer_id, details)
                exc == ExceptionOf(fault, FALSE)
                status == StatusOf(exc)
            IN /\ loans' = CommitRow(loans, row, exc)
               /\ resp' = IF status = 200
                          THEN [Response("add_loan_info", 200, customer_id, "")
                                  EXCEPT !.loan_amount =
                                             Some(FloatOf(row.Loan_Amount)),
                                         !.loan_purpose = Some(row.Loan_Purpose)]
                          ELSE Response("add_loan_info", 500, NULL, exc)
               /\ scen' = ScenAfterLoan(scen, customer_id, details, status,
                                        loans' # loans)
    /\ UNCHANGED <<customers, employment, pc, req>>

(***************************************************************************)
(* get_customer_summary                                                    *)
(***************************************************************************)
\* db.query(EmploymentInfo).filter_by(Customer_ID=customer_id).first(): the
\* query states no order, so any row of the customer may come first; None
\* when there is none.
FirstEmployment(customer_id) ==
    LET rows == {r \in Range(employment) : r.Customer_ID = customer_id}
    IN IF rows = {} THEN {NULL} ELSE {Some(r) : r \in rows}

\* filter_by(Customer_ID=customer_id, Loan_Required="Yes")
IsRequestedLoan(loan, customer_id) ==
    /\ loan.Customer_ID = customer_id
    /\ loan.Loan_Required = "Yes"

\* Mutant: the loans query without Loan_Amount > 0.
IsExistingLoanOfAnyAmount(loan, customer_id) ==
    /\ loan.Customer_ID = customer_id
    /\ loan.Loan_Required = "Yes"
\* The filter of the loans query: Customer_ID == customer_id,
\* Loan_Required == "Yes", Loan_Amount > 0.
IsExistingLoan(loan, customer_id) ==
    /\ loan.Customer_ID = customer_id
    /\ loan.Loan_Required = "Yes"
    /\ loan.Loan_Amount > 0


\* Mutant: the latest_loan query without the Customer_ID filter.
LatestLoanOfAnyone(customer_id) ==
    LET rows == {r \in Range(loans) : r.Loan_Required = "Yes"}
        last == {r \in rows :
                    \A o \in rows : o.Application_Date <= r.Application_Date}
    IN IF rows = {} THEN {NULL} ELSE {Some(r) : r \in last}
\* The latest_loan query, ordered by Application_Date descending, first():
\* any row of the latest date, None when no row passes the filter.
LatestLoan(customer_id) ==
    LET rows == {r \in Range(loans) : IsRequestedLoan(r, customer_id)}
        last == {r \in rows :
                    \A o \in rows : o.Application_Date <= r.Application_Date}
    IN IF rows = {} THEN {NULL} ELSE {Some(r) : r \in last}

\* One entry of existing_loans.
FormatLoan(loan) ==
    [type |-> loan.Loan_Purpose,
     amount |-> FloatOf(loan.Loan_Amount),
     monthly_emi |-> IF loan.EMI # NULL /\ Val(loan.EMI) # 0
                     THEN FloatOf(Val(loan.EMI)) ELSE 0,
     tenure_years |-> (IF loan.Tenure_Months # NULL
                       THEN Val(loan.Tenure_Months) ELSE 0) \div MonthsPerYear,
     status |-> loan.Loan_Status]

RECURSIVE ExistingLoans(_, _)
ExistingLoans(rows, customer_id) ==
    IF rows = <<>> THEN <<>>
    ELSE (IF IsExistingLoan(Head(rows), customer_id)
          THEN <<FormatLoan(Head(rows))>> ELSE <<>>)
         \o ExistingLoans(Tail(rows), customer_id)

GetCustomerSummary(customer_id) ==
    /\ IF ~CustomerExists(customer_id)
       THEN resp' = NotFound("get_customer_summary")
       ELSE \E emp \in FirstEmployment(customer_id),
               latest_loan \in LatestLoan(customer_id) :
              resp' = [Response("get_customer_summary", 200, customer_id, "")
                         EXCEPT !.monthly_income =
                                    Some(IF emp # NULL
                                         THEN FloatOf(Val(emp).Monthly_Income)
                                         ELSE 0),
                                !.credit_score =
                                    IF latest_loan # NULL
                                    THEN Val(latest_loan).Credit_Score ELSE NULL,
                                !.existing_loans =
                                    ExistingLoans(loans, customer_id)]
    /\ UNCHANGED <<customers, employment, loans, pc, req, scen>>

(***************************************************************************)
(* The service.                                                            *)
(***************************************************************************)
\* The service as uvicorn.run starts it: one worker, whose handlers (async
\* functions that never await) each run to completion.
Next ==
    \/ CreateRead(1)
    \/ \E fault \in Faults : CreateInsert(1, fault)
    \/ \E customer_id \in TargetIds, details \in EmploymentDetailsRequests,
          fault \in Faults : AddEmploymentDetails(customer_id, details, fault)
    \/ \E customer_id \in TargetIds, details \in LoanApplicationRequests,
          fault \in Faults : AddLoanInfo(customer_id, details, fault)
    \/ \E customer_id \in RequestIds : GetCustomerSummary(customer_id)

Spec == Init /\ [][Next]_vars

\* Customer creation by several workers on one store: the query of one
\* request and its insert are two store operations, and the other worker's
\* may fall between them.
NextAllocator ==
    \/ \E p \in Procs : CreateRead(p)
    \/ \E p \in Procs, fault \in Faults : CreateInsert(p, fault)

SpecAllocator == InitAllocator /\ [][NextAllocator]_vars

\* The same on any population of well-formed identifiers.
SpecAnyPopulation == InitAnyPopulation /\ [][NextAllocator]_vars

(***************************************************************************)
(* Properties.                                                             *)
(***************************************************************************)
Lit_CUST0111 == <<"C", "U", "S", "T", "0", "1", "1", "1">>
Lit_CUST0005 == <<"C", "U", "S", "T", "0", "0", "0", "5">>
Lit_CUST0006 == <<"C", "U", "S", "T", "0", "0", "0", "6">>
Lit_CUST0150 == <<"C", "U", "S", "T", "0", "1", "5", "0">>
Lit_CUST0151 == <<"C", "U", "S", "T", "0", "1", "5", "1">>

\* The decimal value of a string of digits, digit by digit from the left.
DecimalValue(s) ==
    LET pow[k \in 0..Len(s)] == IF k = 0 THEN 1 ELSE 10 * pow[k - 1]
        sum[k \in 0..Len(s)] ==
            IF k = 0 THEN 0
            ELSE sum[k - 1] + DigitVal(s[k]) * pow[Len(s) - k]
    IN sum[Len(s)]

\* The numeric suffix of an identifier.
NumericSuffix(id) == DecimalValue(SubSeq(id, 5, Len(id)))

\* A customer row was inserted by this step.
CustomerInserted == Len(customers') = Len(customers) + 1

\* C1: every successful creation stores a customer whose numeric suffix is
\* strictly greater than the suffix of every identifier stored before it, and
\* no two stored customers share an identifier.
C1_SuffixStrictlyIncreases ==
    [][CustomerInserted =>
          /\ \A i \in DOMAIN customers :
                NumericSuffix(customers'[Len(customers')])
                    > NumericSuffix(customers[i])
          /\ \A i, j \in DOMAIN customers' :
                i # j => customers'[i] # customers'[j]]_vars

\* Worker p completes its create_personal_details request in this step.
CreateCompletes(p) == pc[p] = "insert" /\ pc'[p] = "idle"

\* C2: two requests that read the same maximum compute the same identifier;
\* a request whose identifier is already stored when it inserts ends with
\* HTTP 500 and stores nothing; a request reports success only for an
\* identifier that was not stored and that it has stored; so no two stored
\* customers share an identifier and no two requests succeed with the same one.
C2_RaceLoserFails ==
    [][/\ \A p, q \in Procs :
             (/\ pc[p] = "insert"
              /\ pc[q] = "insert"
              /\ req[p].latest_customer = req[q].latest_customer)
             => req[p].customer_id = req[q].customer_id
       /\ \A p \in Procs :
             CreateCompletes(p) =>
                 IF req[p].customer_id \in Range(customers)
                 THEN /\ customers' = customers
                      /\ resp'.op = "create_personal_details"
                      /\ resp'.status = 500
                 ELSE resp'.status = 200 =>
                          /\ customers' = Append(customers, req[p].customer_id)
                          /\ resp'.customer_id = req[p].customer_id
       /\ \A i, j \in DOMAIN customers' :
             i # j => customers'[i] # customers'[j]]_vars

\* C2 witness: one worker has just succeeded with the identifier that the
\* other, which read before that insert, is about to insert.
C2_Witness ==
    \E p \in Procs :
        /\ pc[p] = "insert"
        /\ req[p].latest_customer # LatestCustomer(customers)
        /\ req[p].customer_id \in Range(customers)
        /\ resp.op = "create_personal_details"
        /\ resp.status = 200
        /\ resp.customer_id = req[p].customer_id

\* C3: add_employment_details and add_loan_info for a customer_id with no
\* stored customer answer 404 and leave the three tables unchanged.
C3_AbsentCustomerNotFound ==
    [][\A customer_id \in TargetIds, fault \in Faults :
          customer_id \notin Range(customers) =>
              /\ \A details \in EmploymentDetailsRequests :
                    AddEmploymentDetails(customer_id, details, fault) =>
                        /\ resp'.status = 404
                        /\ UNCHANGED store
              /\ \A details \in LoanApplicationRequests :
                    AddLoanInfo(customer_id, details, fault) =>
                        /\ resp'.status = 404
                        /\ UNCHANGED store]_vars

\* C3 witness: add_loan_info has just answered 404.
C3_Witness ==
    /\ resp.op = "add_loan_info"
    /\ resp.status = 404

\* C4: the identifier computed is "CUST" and the next number in at least four
\* decimal digits, zero-padded, the next number being 111 on an empty table
\* and max(suffix read + 1, 111) otherwise: CUST0111 on an empty table,
\* CUST0151 after CUST0150, CUST0111 after CUST0005.
C4_NextIdentifier ==
    \A p \in Procs :
        pc[p] = "insert" =>
            LET last == req[p].latest_customer
                id == req[p].customer_id
                digits == SubSeq(id, 5, Len(id))
                next == IF last = NULL THEN 111
                        ELSE IF NumericSuffix(last) + 1 >= 111
                             THEN NumericSuffix(last) + 1 ELSE 111
            IN /\ SubSeq(id, 1, 4) = <<"C", "U", "S", "T">>
               /\ \A k \in DOMAIN digits : IsDigit(digits[k])
               /\ Len(digits) >= 4
               /\ Len(digits) > 4 => digits[1] # "0"
               /\ DecimalValue(digits) = next
               /\ last = NULL => id = Lit_CUST0111
               /\ last = Lit_CUST0150 => id = Lit_CUST0151
               /\ last = Lit_CUST0005 => id = Lit_CUST0111 /\ id # Lit_CUST0006

\* C4 witness: a request has read CUST0005 and computed CUST0111.
C4_Witness ==
    \E p \in Procs :
        /\ pc[p] = "insert"
        /\ req[p].latest_customer = Lit_CUST0005
        /\ req[p].customer_id = Lit_CUST0111

\* Worker p runs the query of its create_personal_details request in this step.
CreateReads(p) == pc[p] = "idle" /\ pc'[p] = "insert"

\* C5: the identifier the query returns has the numerically largest suffix of
\* all stored identifiers, and is None exactly when no customer is stored.
C5_ReadsNumericMaximum ==
    [][\A p \in Procs :
          CreateReads(p) =>
              IF customers = <<>> THEN req'[p].latest_customer = NULL
              ELSE /\ req'[p].latest_customer \in Range(customers)
                   /\ \A i \in DOMAIN customers :
                         NumericSuffix(customers[i])
                             <= NumericSuffix(req'[p].latest_customer)]_vars

\* C6: every Monthly_Income and every Loan_Amount stored is non-negative.
C6_AmountsNonNegative ==
    /\ \A i \in DOMAIN employment : employment[i].Monthly_Income >= 0
    /\ \A i \in DOMAIN loans : loans[i].Loan_Amount >= 0

\* The last response is a summary of a stored customer.
IsSummary == resp.op = "get_customer_summary" /\ resp.status = 200

\* The rows of the loan table that belong to the customer of the last
\* response, were requested ("Yes") and have an amount above zero.
QualifyingLoans ==
    {i \in DOMAIN loans :
        /\ loans[i].Customer_ID = resp.customer_id
        /\ loans[i].Loan_Required = "Yes"
        /\ loans[i].Loan_Amount > 0}

\* Entry e of existing_loans is row i of the loan table.
ListsLoan(e, i) ==
    /\ e.amount = loans[i].Loan_Amount * Scale
    /\ e.type = loans[i].Loan_Purpose
    /\ e.status = loans[i].Loan_Status

\* C7: existing_loans holds exactly the customer's loan rows with
\* Loan_Required "Yes" and Loan_Amount > 0: as many entries as there are such
\* rows, every such row listed and every entry such a row.
C7_ExistingLoansAreQualifying ==
    IsSummary =>
        /\ Len(resp.existing_loans) = Cardinality(QualifyingLoans)
        /\ \A i \in QualifyingLoans :
              \E k \in DOMAIN resp.existing_loans :
                  ListsLoan(resp.existing_loans[k], i)
        /\ \A k \in DOMAIN resp.existing_loans :
              /\ resp.existing_loans[k].amount > 0
              /\ \E i \in QualifyingLoans : ListsLoan(resp.existing_loans[k], i)

\* C7 witness: a summary that lists a loan while the customer has a stored
\* loan row that is not listed and another customer has a qualifying one.
C7_Witness ==
    /\ IsSummary
    /\ Len(resp.existing_loans) = 1
    /\ \E i \in DOMAIN loans :
          /\ loans[i].Customer_ID = resp.customer_id
          /\ i \notin QualifyingLoans
    /\ \E i \in DOMAIN loans :
          /\ loans[i].Customer_ID # resp.customer_id
          /\ loans[i].Loan_Required = "Yes"
          /\ loans[i].Loan_Amount > 0

\* C8: when the write of create_personal_details, add_employment_details or
\* add_loan_info fails, the request answers 500 and the three tables are as
\* they were.
C8_FailedWriteLeavesStore ==
    [][/\ (pc[1] = "insert" /\ CreateInsert(1, "commit")) =>
              /\ resp'.status = 500
              /\ UNCHANGED store
       /\ \A customer_id \in Range(customers) :
             /\ \A details \in EmploymentDetailsRequests :
                   AddEmploymentDetails(customer_id, details, "commit") =>
                       /\ resp'.status = 500
                       /\ UNCHANGED store
             /\ \A details \in LoanApplicationRequests :
                   AddLoanInfo(customer_id, details, "commit") =>
                       /\ resp'.status = 500
                       /\ UNCHANGED store]_vars

\* C8 witness: add_employment_details has just answered 500 for a failed
\* write.
C8_Witness ==
    /\ resp.op = "add_employment_details"
    /\ resp.status = 500
    /\ resp.detail = "OperationalError"

\* The customer of the last response has no employment row.
NoEmployment ==
    \A i \in DOMAIN employment : employment[i].Customer_ID # resp.customer_id

\* The summary of a customer without income, credit score or loans.
EmptySummary ==
    /\ resp.monthly_income = Some(0)
    /\ resp.credit_score = NULL
    /\ resp.existing_loans = <<>>

\* C9 as claimed: a customer with no employment row and no loan row with
\* Loan_Required "Yes" and Loan_Amount > 0 gets monthly income 0, credit score
\* null and no existing loans.
C9_NoQualifyingLoanEmptySummary ==
    (IsSummary /\ NoEmployment /\ QualifyingLoans = {}) => EmptySummary

\* C9 as amended: a customer with no employment row and no loan row with
\* Loan_Required "Yes", of any amount, gets monthly income 0, credit score
\* null and no existing loans.
C9_NoRequestedLoanEmptySummary ==
    (/\ IsSummary
     /\ NoEmployment
     /\ \A i \in DOMAIN loans :
           loans[i].Customer_ID = resp.customer_id
               => loans[i].Loan_Required # "Yes")
    => EmptySummary

\* C9 witness: the empty summary of a customer whose only loan row has
\* Loan_Required "No", while other customers have requested loans.
C9_Witness ==
    /\ IsSummary
    /\ NoEmployment
    /\ EmptySummary
    /\ \E i \in DOMAIN loans : loans[i].Customer_ID = resp.customer_id
    /\ \A i \in DOMAIN loans :
          loans[i].Customer_ID = resp.customer_id
              => loans[i].Loan_Required = "No"
    /\ \E i \in DOMAIN loans : loans[i].Loan_Required = "Yes"

\* The float x is a whole number.
IsWhole(x) == x % Scale = 0

\* The last response is the summary that ends the scenario.
ScenarioSummary ==
    /\ scen.step = 3
    /\ IsSummary
    /\ resp.customer_id = scen.cid

\* The summary the scenario expects: the income, and the loan alone.
ScenarioResult ==
    /\ resp.monthly_income = Some(scen.I)
    /\ Len(resp.existing_loans) = 1
    /\ resp.existing_loans[1].amount = scen.A
    /\ resp.existing_loans[1].type = "Home"

\* C10 as claimed: after create, add employment with income I and add loan
\* with amount A > 0 and loan_required "Yes", the summary has monthly_income I
\* and one existing loan, of amount A and purpose "Home".
C10_ScenarioAnyAmounts == ScenarioSummary => ScenarioResult

\* C10 as amended: the same for a whole-number income I and a whole-number
\* amount A > 0.
C10_ScenarioWholeAmounts ==
    (ScenarioSummary /\ IsWhole(scen.I) /\ IsWhole(scen.A)) => ScenarioResult

\* C10 witness: the summary of the scenario with I = 50000 and A = 200000.
C10_Witness ==
    /\ ScenarioSummary
    /\ scen.I = 50000 * Scale
    /\ scen.A = 200000 * Scale
    /\ ScenarioResult

====
